---- MODULE Spec2Model ----
(***************************************************************************)
(* StartBot front end: the request client (lib/api.ts), the session        *)
(* context (lib/auth-context), the route guard, the dashboard's agent hub  *)
(* and the fetch-or-generate screens of the five agents of one idea.       *)
(* The backend is the environment: it answers every request in flight.     *)
(***************************************************************************)
EXTENDS Integers, FiniteSets, Sequences, Bags, TLC

\* ---------------------------------------------------------------- bounds
MaxInFlight == 2

\* ------------------------------------------------------------- constants
NoToken == "null"
NoUser == "null"
None == "null"
Tokens == {"t1"}
UserOf(t) == IF t = "t1" THEN "u1" ELSE "u2"
PersistedToken == "t1"

Kinds == {"validation", "market_research", "pitch_deck", "mvp", "legal"}
SimpleKinds == {"market_research", "pitch_deck", "mvp"}
AgentKeys == Kinds \cup {"chat"}
DocTypes == {"nda", "founder_agreement"}
\* final_viability_score values an evaluation can carry (0 to 100)
Scores == {"0", "72.5"}
\* a 200 response of the evaluation endpoints carries module_scores with a
\* numeric final_viability_score, or lacks it (NoScore)
NoScore == "missing"
Reports == Scores \cup {NoScore}
Outcomes == {"not_started", "pending", "completed", "failed"}
Routes == Kinds \cup {"dashboard", "login", "callback"}
Guarded == Kinds \cup {"dashboard"}

\* a request's op: "read", "generate", "me", "dashboard", "status", "oauth"
\* 401, another error status, and a call that never got a response
Failures == {"unauthorized", "servererror", "timeout"}
Resps == {"ok", "notfound"} \cup Failures

\* the dependency edges (prerequisite, dependent), in declaration order
Edges == << <<"validation", "market_research">>, <<"validation", "pitch_deck">>,
            <<"validation", "legal">>, <<"validation", "chat">>,
            <<"market_research", "mvp">> >>

VARIABLES
  token,      \* localStorage[TOKEN_KEY]
  user,       \* AuthProvider state
  loading,    \* AuthProvider state
  refreshPc,  \* position of the one refresh() call: "init", "await", "done"
  route,      \* the current page
  mounted,    \* the guarded page's content component is mounted
  status,     \* the screen's status state
  data,       \* the screen's record (report / deck / research): its status
  returned,   \* evaluation screen: the score its last response carried
  generating, \* legal screen: the document type being generated
  documents,  \* legal screen: the list of documents, each by its type
  hasMR,      \* evaluation screen: market-research status check
  dashLoading,\* dashboard: loading state
  dashData,   \* dashboard: the status map received, or None
  net,        \* the bag of requests in flight
  store,      \* backend: status of the idea's record per kind
  legalStore, \* backend: legal document types generated for the idea
  since401,   \* history: a 401 was handled and no token was stored since
  result,     \* what the request() call under study returned or threw
  form,       \* the idea form or the signup form: inputs, errors, submitting
  chat,       \* the chat screen: its state and what its last render showed
  loaded      \* history: a read call of the mounted screen has settled
vars == << token, user, loading, refreshPc, route, mounted, status, data,
           generating, documents, hasMR, dashLoading, dashData, net, store,
           legalStore, returned, since401, loaded, result, form, chat >>

sessionVars == << token, user, loading, refreshPc >>
screenVars == << status, data, returned, generating, documents, hasMR, dashLoading, dashData,
                loaded >>
backendVars == << store, legalStore >>
pages == << form, chat >>

NoData == [k \in AgentKeys |-> None]

\* ----------------------------------------------------------- api.ts
\* getToken / setToken / clearToken act on the one storage key
getToken == token

\* request(): the Authorization header carries the stored token, if any
\* (auth = NoToken: no header); live is the caller's "active" flag; seen is
\* what the backend holds when the call is made, the oldest listing the
\* response to getLegalDocuments can carry
request(n, op, kind, doc, live) ==
  n (+) SetToBag({[op |-> op, kind |-> kind, doc |-> doc, live |-> live,
                   auth |-> getToken,
                   seen |-> IF op = "read" /\ kind = "legal" THEN legalStore ELSE {}]})

\* variant: request() clearing the token on every failure
TokenAfter_anyFailure(a, t) == IF a \in Failures THEN NoToken ELSE t

\* variant: request() clearing the token whenever it throws for an answer
TokenAfter_anyError(a, t) == IF a # "ok" THEN NoToken ELSE t

\* variant: the 401 branch of request() left out
TokenAfter_keep(a, t) == t

\* request(): what the settled call does to the stored token
TokenAfter(a, t) == IF a = "unauthorized" THEN NoToken ELSE t

InFlight == BagToSet(net)
CanIssue(k) == BagCardinality(net) + k <= MaxInFlight

\* ----------------------------------------------------------- request()
\* the default of request()'s timeoutMs parameter; no caller passes another
DefaultTimeoutMs == 120000

\* the error classes request() can throw an instance of, and their parents
Classes == {"Error", "TypeError", "SyntaxError", "DOMException", "ApiError"}
Parent(c) == IF c = "Error" THEN None ELSE "Error"
ClassChain(c) == IF Parent(c) = None THEN {c} ELSE {c, Parent(c)}
InstanceOf(e, c) == e.kind = "thrown" /\ c \in ClassChain(e.class)

NoResult ==
  [kind |-> "none", class |-> None, name |-> None, status |-> 0,
   message |-> None, aborted |-> FALSE, settledAt |-> 0]

\* what the server and the transport do with one call: the time the response
\* headers arrive (or the connection fails), the time reading the body takes,
\* the status line, whether the body is JSON and the detail field it carries
Statuses == {200, 400, 401, 403, 404, 422, 500, 503}
Delays == {0, 60000, 120000, 180000}
Details == {None, "Idea not found", "Not authenticated"}
Responses ==
  [connected : BOOLEAN, headersAt : Delays, bodyTakes : Delays,
   status : Statuses, json : BOOLEAN, detail : Details]

\* answers of a call as the screens' continuations see them
AnswerOf(resp, timeoutMs) ==
  IF resp.headersAt >= timeoutMs THEN "timeout"
  ELSE IF ~resp.connected THEN "networkerror"
  ELSE IF resp.status = 200 THEN "ok"
  ELSE IF resp.status = 401 THEN "unauthorized"
  ELSE IF resp.status = 404 THEN "notfound"
  ELSE "servererror"

\* the Error thrown in place of the AbortError of the timer's abort()
TimedOut(timeoutMs) ==
  [kind |-> "thrown", class |-> "Error", name |-> "Error", status |-> 0,
   message |-> "Request timed out - the server took too long to respond",
   aborted |-> TRUE, settledAt |-> timeoutMs]

\* the rejection of fetch() rethrown as it is
NetworkFailure(at) ==
  [kind |-> "thrown", class |-> "TypeError", name |-> "TypeError", status |-> 0,
   message |-> "Failed to fetch", aborted |-> FALSE, settledAt |-> at]

\* new ApiError(res.status, detail)
ApiError(st, detail, at) ==
  [kind |-> "thrown", class |-> "ApiError", name |-> "ApiError", status |-> st,
   message |-> detail, aborted |-> FALSE, settledAt |-> at]

\* request(path, options, timeoutMs): what the call returns or throws
requestOutcome(resp, timeoutMs) ==
  LET done == resp.headersAt + resp.bodyTakes
      fallback == "Request failed with status " \o ToString(resp.status)
  IN IF resp.headersAt >= timeoutMs THEN TimedOut(timeoutMs)
     ELSE IF ~resp.connected THEN NetworkFailure(resp.headersAt)
     ELSE IF resp.status # 200
       THEN ApiError(resp.status,
                     IF resp.json /\ resp.detail # None THEN resp.detail ELSE fallback,
                     done)
     ELSE IF ~resp.json
       THEN [kind |-> "thrown", class |-> "SyntaxError", name |-> "SyntaxError",
             status |-> 0, message |-> "Unexpected token", aborted |-> FALSE,
             settledAt |-> done]
     ELSE [kind |-> "returned", class |-> None, name |-> None, status |-> resp.status,
           message |-> None, aborted |-> FALSE, settledAt |-> done]

\* ----------------------------------------------------------- route guard
\* variant: the guard without its "no user" branch
RouteGuardView_lax(u, l) == IF l THEN "placeholder" ELSE "children"

RouteGuardView(u, l) ==
  IF l THEN "placeholder" ELSE IF u = NoUser THEN "nothing" ELSE "children"

\* variant: the redirect effect without its loading test
RouteGuardRedirects_eager(u, l) == u = NoUser

\* variant: the guard without its redirect effect
RouteGuardRedirects_never(u, l) == FALSE

RouteGuardRedirects(u, l) == ~l /\ u = NoUser

\* ----------------------------------------------------------- dependency gate
\* variant: the MVP card's tooltip looks at market research first
agents_researchFirst(d) ==
  [k \in AgentKeys |->
     CASE k = "validation" -> [enabled |-> TRUE, tooltip |-> ""]
       [] k = "mvp" ->
            [enabled |-> d["validation"] = "completed" /\ d["market_research"] = "completed",
             tooltip |-> IF d["market_research"] # "completed"
                           THEN "Complete market research first"
                         ELSE IF d["validation"] # "completed"
                           THEN "Validate idea first" ELSE ""]
       [] OTHER ->
            [enabled |-> d["validation"] = "completed",
             tooltip |-> IF d["validation"] # "completed"
                           THEN "Validate idea first" ELSE ""]]

\* variant: the MVP card gated like the other cards
agents_flat(d) ==
  [k \in AgentKeys |->
     IF k = "validation" THEN [enabled |-> TRUE, tooltip |-> ""]
     ELSE [enabled |-> d["validation"] = "completed",
           tooltip |-> IF d["validation"] # "completed"
                         THEN "Validate idea first" ELSE ""]]

\* variant: the agents array with the chat card never locked
agents_chatOpen(d) ==
  [k \in AgentKeys |->
     CASE k \in {"validation", "chat"} -> [enabled |-> TRUE, tooltip |-> ""]
       [] k = "mvp" ->
            [enabled |-> d["validation"] = "completed" /\ d["market_research"] = "completed",
             tooltip |-> IF d["validation"] # "completed" THEN "Validate idea first"
                         ELSE IF d["market_research"] # "completed"
                           THEN "Complete market research first" ELSE ""]
       [] OTHER ->
            [enabled |-> d["validation"] = "completed",
             tooltip |-> IF d["validation"] # "completed"
                           THEN "Validate idea first" ELSE ""]]

\* DashboardContent: the agents array of the agent hub
IsDone(d, k) == d[k] = "completed"
agents(d) ==
  LET isValidated == IsDone(d, "validation")
      hasMRd == IsDone(d, "market_research")
  IN [k \in AgentKeys |->
       CASE k = "validation" -> [enabled |-> TRUE, tooltip |-> ""]
         [] k = "mvp" ->
              [enabled |-> isValidated /\ hasMRd,
               tooltip |-> IF ~isValidated THEN "Validate idea first"
                           ELSE IF ~hasMRd THEN "Complete market research first"
                           ELSE ""]
         [] OTHER ->
              [enabled |-> isValidated,
               tooltip |-> IF ~isValidated THEN "Validate idea first" ELSE ""]]

\* ----------------------------------------------------------- forms
\* text typed into a field: a sequence of characters, "a" a letter, "A" an
\* upper-case letter, "1" a digit, "!" a special character, "_" the
\* underscore, " " a blank
Blank == " "
UsernameMin == 3
UsernameMax == 20
PasswordMin == 8
DescriptionWords == 5

\* String.prototype.trim
RECURSIVE TrimLeft(_)
TrimLeft(t) == IF t # << >> /\ Head(t) = Blank THEN TrimLeft(Tail(t)) ELSE t
RECURSIVE TrimRight(_)
TrimRight(t) ==
  IF t # << >> /\ t[Len(t)] = Blank THEN TrimRight(SubSeq(t, 1, Len(t) - 1)) ELSE t
Trim(t) == TrimRight(TrimLeft(t))

\* t.split(/\s+/).length: one more than the runs of blanks in t
SplitLength(t) ==
  1 + Cardinality({i \in DOMAIN t : t[i] = Blank /\ (i = 1 \/ t[i - 1] # Blank)})

\* ideas/new: validate(form), "" for a field without error
IdeaFields ==
  {"startup_name", "one_line_description", "industry", "target_customer_type",
   "geography"}
validate(f) ==
  [k \in IdeaFields |->
     CASE k = "one_line_description" ->
            IF SplitLength(Trim(f.one_line_description)) < DescriptionWords
              THEN "Please provide a more detailed description (at least 5 words)"
            ELSE IF Trim(f.one_line_description) = << >> THEN "Required" ELSE ""
       [] k = "target_customer_type" ->
            IF f.target_customer_type = << >> THEN "Required" ELSE ""
       [] k = "startup_name" -> IF Trim(f.startup_name) = << >> THEN "Required" ELSE ""
       [] k = "industry" ->
            IF Trim(f.industry) = << >> THEN "Select at least one industry" ELSE ""
       [] OTHER ->
            IF Trim(f.geography) = << >> THEN "Select at least one country" ELSE ""]
NoErrors == [k \in IdeaFields |-> ""]

\* signup: USERNAME_RE, PW_RULES and COMMON_PASSWORDS
usernameValid(f) ==
  /\ Len(f.username) >= UsernameMin /\ Len(f.username) <= UsernameMax
  /\ \A i \in DOMAIN f.username : f.username[i] \in {"a", "A", "1", "_"}
allRulesPassed(f) ==
  /\ Len(f.password) >= PasswordMin
  /\ \A c \in {"A", "a", "1", "!"} : \E i \in DOMAIN f.password : f.password[i] = c
  /\ ~f.common
\* the first check of handleSubmit that fails, "" when none does
signupError(f) ==
  IF ~usernameValid(f)
    THEN "Username must be 3-20 characters (letters, numbers, underscores only)"
  ELSE IF ~allRulesPassed(f) THEN "Password does not meet all requirements"
  ELSE IF f.password # f.confirmPassword THEN "Passwords do not match"
  ELSE ""

\* the texts tried in the fields
Rep(c, n) == [i \in 1 .. n |-> c]
Names == {<< >>, << Blank, Blank >>, << "a", "a" >>}
Descriptions ==
  {<< >>, << Blank >>, << "a", Blank, "a", Blank, "a", Blank, "a" >>,
   << "a", Blank, "a", Blank, "a", Blank, "a", Blank, Blank >>,
   << Blank, "a", Blank, "a", Blank, Blank, "a", Blank, "a", Blank, "a", Blank >>}
Choices == {<< >>, << "a" >>}
Usernames ==
  {Rep("a", UsernameMin - 1), << "a", "_", "1" >>, << "a", "!", "a" >>,
   Rep("A", UsernameMax), Rep("a", UsernameMax + 1)}
Passwords ==
  {<< "A", "a", "1", "!" >> \o Rep("a", PasswordMin - 4),
   << "A", "a", "1", "!" >> \o Rep("a", PasswordMin - 5),
   << "A", "a", "1" >> \o Rep("a", PasswordMin), Rep("a", PasswordMin)}
IdeaInputs ==
  [startup_name : Names, one_line_description : Descriptions, industry : Choices,
   target_customer_type : Choices, geography : Choices]
SignupInputs ==
  {f \in [username : Usernames, password : Passwords, confirmPassword : Passwords,
          common : BOOLEAN, email : Choices] :
     f.common => (\A i \in DOMAIN f.password : f.password[i] \in {"a", "1"})}

NoForm == [page |-> None, input |-> << >>, errors |-> None, submitting |-> FALSE]

\* ChatPage: showSuggestions is messages.length <= 1 && !isLoading
SuggestionsUpTo == 1
\* the state of ChatPage a render reads: the values its JSX and the closures
\* of its handlers hold until the next render
Rendered(c) ==
  [isLoading |-> c.isLoading, input |-> c.input, messages |-> c.messages,
   statusLoading |-> c.statusLoading]
\* ChatPage's useState initial values, and its first render
NoChat ==
  LET c == [isLoading |-> FALSE, input |-> << >>, messages |-> 0, statusLoading |-> TRUE]
  IN [isLoading |-> c.isLoading, input |-> c.input, messages |-> c.messages,
      statusLoading |-> c.statusLoading, shown |-> Rendered(c)]

\* ----------------------------------------------------------- screens
InitialScreen ==
  /\ status = "loading" /\ data = None /\ returned = None /\ generating = None
  /\ documents = << >> /\ hasMR = None /\ dashLoading = TRUE /\ dashData = NoData
  /\ loaded = FALSE

ResetScreen ==
  /\ status' = "loading" /\ data' = None /\ returned' = None /\ generating' = None
  /\ documents' = << >> /\ hasMR' = None /\ dashLoading' = TRUE /\ dashData' = NoData
  /\ loaded' = FALSE

\* cleanup on unmount: results of the calls in flight are discarded, and
\* with them whatever listing their responses carry
Discarded(r) == [r EXCEPT !.live = FALSE, !.seen = {}]
Orphan(n) ==
  LET dead == {Discarded(r) : r \in BagToSet(n)}
  IN [d \in dead |->
        BagCardinality([x \in {y \in BagToSet(n) : Discarded(y) = d} |-> n[x]])]

Init ==
  /\ token \in {NoToken, PersistedToken}
  /\ user = NoUser
  /\ loading = TRUE
  /\ refreshPc = "init"
  /\ route \in Routes
  /\ mounted = FALSE
  /\ InitialScreen
  /\ net = EmptyBag
  /\ store \in {s \in [Kinds \ {"legal"} -> {"none", "failed", "completed"}] :
                  /\ \A k \in Kinds \ {"legal", "market_research"} : s[k] # "failed"
                  /\ s["market_research"] # "none" => s["validation"] = "completed"
                  /\ s["pitch_deck"] # "none" => s["validation"] = "completed"
                  /\ s["mvp"] # "none" => s["market_research"] = "completed"}
  /\ legalStore = {}
  /\ since401 = FALSE
  /\ result = NoResult
  /\ form = NoForm /\ chat = NoChat

\* ----------------------------------------------------------- session context
\* AuthProvider's mount effect: refresh() up to its await
RefreshStart ==
  /\ refreshPc = "init"
  /\ IF getToken = NoToken
       THEN /\ user' = NoUser /\ loading' = FALSE /\ refreshPc' = "done"
            /\ net' = net
       ELSE /\ net' = request(net, "me", None, None, TRUE)
            /\ refreshPc' = "await"
            /\ UNCHANGED << user, loading >>
  /\ UNCHANGED << token, route, mounted, screenVars, backendVars, since401, result, pages >>

\* variant: refresh() with setLoading(false) on the success path only
RefreshSettle_noFinally(r, a) ==
  /\ refreshPc' = "done"
  /\ IF a = "ok"
       THEN /\ user' = UserOf(r.auth) /\ token' = token /\ loading' = FALSE
       ELSE /\ user' = NoUser /\ token' = NoToken /\ loading' = loading

\* variant: refresh() whose catch leaves the token in place
RefreshSettle_keepToken(r, a) ==
  /\ refreshPc' = "done"
  /\ loading' = FALSE
  /\ token' = token
  /\ user' = IF a = "ok" THEN UserOf(r.auth) ELSE NoUser

\* refresh() after getMe() settles
RefreshSettle(r, a) ==
  /\ refreshPc' = "done"
  /\ loading' = FALSE
  /\ IF a = "ok"
       THEN /\ user' = UserOf(r.auth) /\ token' = token
       ELSE /\ user' = NoUser /\ token' = NoToken

\* variant: login() that runs refresh() again
loginFn_refreshes(t) ==
  /\ refreshPc # "init"
  /\ route = "login"
  /\ token' = t
  /\ user' = UserOf(t)
  /\ since401' = FALSE
  /\ UNCHANGED << result, pages >>
  /\ refreshPc' = "init"
  /\ UNCHANGED << loading, route, mounted, screenVars, net, backendVars >>

\* variant: login() that persists the token and leaves user alone
loginFn_tokenOnly(t) ==
  /\ refreshPc # "init"
  /\ route = "login"
  /\ token' = t
  /\ since401' = FALSE
  /\ UNCHANGED << result, pages >>
  /\ UNCHANGED << user, loading, refreshPc, route, mounted, screenVars, net,
                  backendVars >>

\* login(token, user) of the context
loginFn(t) ==
  /\ refreshPc # "init"
  /\ route = "login"
  /\ token' = t
  /\ user' = UserOf(t)
  /\ since401' = FALSE
  /\ UNCHANGED << result, pages >>
  /\ UNCHANGED << loading, refreshPc, route, mounted, screenVars, net, backendVars >>

\* variant: logout() that sets user to null and leaves the token stored
handleLogout_keepsToken ==
  /\ refreshPc # "init"
  /\ user # NoUser
  /\ token' = token
  /\ user' = NoUser
  /\ route' = "login"
  /\ mounted' = FALSE
  /\ net' = Orphan(net)
  /\ ResetScreen
  /\ UNCHANGED << loading, refreshPc, backendVars, since401, result, pages >>

\* Navbar.handleLogout: logout() then router.push("/auth/login")
handleLogout ==
  /\ refreshPc # "init"
  /\ user # NoUser
  /\ token' = NoToken
  /\ user' = NoUser
  /\ route' = "login"
  /\ mounted' = FALSE
  /\ net' = Orphan(net)
  /\ ResetScreen
  /\ UNCHANGED << loading, refreshPc, backendVars, since401, result, pages >>

\* RouteGuard's effect
GuardRedirect ==
  /\ refreshPc # "init"
  /\ route \in Guarded
  /\ RouteGuardRedirects(user, loading)
  /\ route' = "login"
  /\ UNCHANGED << sessionVars, mounted, screenVars, net, backendVars, since401, result, pages >>

\* ----------------------------------------------------------- views
\* which branch of the screen's render is shown
SimpleView ==
  CASE status = "loading" -> "loading"
    [] status = "generating" -> "generating"
    [] status = "error" -> "error"
    [] status = "idle" \/ data # "completed" -> "idle"
    [] OTHER -> "success"

\* LegalContent.getDocByType: the places of the list holding a document of
\* the type (find takes the first)
getDocByType(key) == {i \in DOMAIN documents : documents[i].type = key}

\* the orders in which the backend can list the stored documents; a record
\* of the list carries its document type and whether the client got it from
\* the listing ("list") or as the result of a generate call ("generate")
RECURSIVE Listings(_)
Listings(S) ==
  IF S = {} THEN {<< >>}
  ELSE UNION {{<< [type |-> x, by |-> "list"] >> \o q : q \in Listings(S \ {x})} : x \in S}

LegalView ==
  CASE status = "loading" -> "loading"
    [] status = "error" /\ documents = << >> -> "error"
    [] OTHER -> "main"

\* variant: the generate button rendered in every view
GenerateButton_always == mounted /\ route \in SimpleKinds

\* the generate / try-again / regenerate buttons bound to handleGenerate
GenerateButton ==
  /\ mounted
  /\ route \in SimpleKinds
  /\ \/ SimpleView \in {"error", "idle"}
     \/ SimpleView = "success" /\ route \in {"pitch_deck", "market_research"}

\* links and router.push buttons the current page renders
NavTargets ==
  (IF user # NoUser THEN {"dashboard"} ELSE {"login"})
  \cup
  (IF ~mounted THEN {}
   ELSE CASE route = "dashboard" ->
               IF dashLoading \/ dashData = NoData THEN {}
               ELSE {"validation"} \cup {k \in Kinds : agents(dashData)[k].enabled}
          [] route = "validation" ->
               IF status # "success" THEN {}
               ELSE {"pitch_deck", "market_research", "legal"}
                    \cup (IF hasMR = "true" THEN {"mvp"} ELSE {})
          [] route = "legal" ->
               IF LegalView = "main" THEN {"validation", "pitch_deck", "mvp"} ELSE {}
          [] route = "pitch_deck" ->
               IF SimpleView \in {"error", "success"} THEN {"validation"} ELSE {}
          [] route = "market_research" ->
               IF SimpleView = "error" THEN {"validation"}
               ELSE IF SimpleView = "success"
                      THEN {"validation", "pitch_deck", "mvp", "legal"} ELSE {}
          [] route = "mvp" ->
               IF SimpleView = "error" THEN {"validation"}
               ELSE IF SimpleView = "success"
                      THEN {"validation", "pitch_deck", "market_research", "legal"}
                      ELSE {}
          [] OTHER -> {})

Navigate(target) ==
  /\ refreshPc # "init"
  /\ target \in NavTargets \ {route}
  /\ route' = target
  /\ mounted' = FALSE
  /\ net' = Orphan(net)
  /\ ResetScreen
  /\ UNCHANGED << sessionVars, backendVars, since401, result, pages >>

\* the guarded page's content mounts and its mount effects run
Mount ==
  /\ route \in Guarded
  /\ ~mounted
  /\ RouteGuardView(user, loading) = "children"
  /\ CanIssue(IF route = "validation" THEN 2 ELSE 1)
  /\ mounted' = TRUE
  /\ ResetScreen
  /\ net' = CASE route = "dashboard" -> request(net, "dashboard", None, None, TRUE)
              [] route = "validation" ->
                   request(request(net, "status", "market_research", None, TRUE),
                           "read", "validation", None, TRUE)
              [] OTHER -> request(net, "read", route, None, TRUE)
  /\ UNCHANGED << sessionVars, route, backendVars, since401, result, pages >>

\* ----------------------------------------------------------- click handlers
\* handleGenerate of the pitch-deck, market-research and MVP screens
handleGenerate ==
  /\ GenerateButton
  /\ CanIssue(1)
  /\ status' = "generating"
  /\ net' = request(net, "generate", route, None, TRUE)
  /\ UNCHANGED << sessionVars, route, mounted, data, returned, generating, documents, hasMR,
                  dashLoading, dashData, loaded, backendVars, since401, result, pages >>

\* legal screen: a document-type card without a generated document is clicked
handleGenerateLegal(d) ==
  /\ mounted /\ route = "legal"
  /\ LegalView = "main"
  /\ generating # d
  /\ getDocByType(d) = {}
  /\ CanIssue(1)
  /\ generating' = d
  /\ net' = request(net, "generate", "legal", d, TRUE)
  /\ UNCHANGED << sessionVars, route, mounted, status, data, returned, documents, hasMR,
                  dashLoading, dashData, loaded, backendVars, since401, result, pages >>

\* legal screen: the Retry button of the full-page error calls fetchDocs()
RetryFetchDocs ==
  /\ mounted /\ route = "legal"
  /\ LegalView = "error"
  /\ CanIssue(1)
  /\ net' = request(net, "read", "legal", None, TRUE)
  /\ UNCHANGED << status, data, returned, generating, documents, hasMR, dashLoading, dashData,
                  loaded >>
  /\ UNCHANGED << sessionVars, route, mounted, backendVars, since401, result, pages >>

\* ----------------------------------------------------------- backend
Prerequisites(k) == {Edges[i][1] : i \in {j \in DOMAIN Edges : Edges[j][2] = k}}

StatusMap ==
  [k \in AgentKeys |->
     CASE k = "legal" -> IF legalStore = {} THEN "not_started" ELSE "completed"
       [] k = "chat" -> "not_started"
       [] OTHER -> IF store[k] = "none" THEN "not_started" ELSE store[k]]

\* the answers the backend or the transport can give to a request
Answers(r) ==
  IF r.auth = NoToken THEN {"unauthorized", "timeout"}
  ELSE Failures \cup
    CASE r.op \in {"read", "status"} /\ r.kind = "legal" ->
           IF legalStore = {} \/ r.seen = {} THEN {"ok", "notfound"} ELSE {"ok"}
      [] r.op \in {"read", "status"} ->
           IF store[r.kind] = "none" THEN {"notfound"} ELSE {"ok"}
      [] r.op = "generate" ->
           IF \A p \in Prerequisites(r.kind) : StatusMap[p] = "completed"
             THEN {"ok"} ELSE {}
      [] OTHER -> {"ok"}

\* the backend's side of a successful generate call
Generated(r, a) ==
  IF a = "ok" /\ r.op = "generate"
    THEN IF r.kind = "legal"
           THEN legalStore' = legalStore \cup {r.doc} /\ store' = store
           ELSE store' = [store EXCEPT ![r.kind] = "completed"]
                /\ legalStore' = legalStore
    ELSE UNCHANGED backendVars

\* ----------------------------------------------------------- continuations
\* what the awaiting caller does once request() has returned or thrown;
\* n is the bag of the other requests in flight
\* variant: run without its 404 branch
runSettle_noGenerate(r, a, n) ==
  /\ UNCHANGED << generating, documents, hasMR, dashLoading, dashData >>
  /\ net' = n
  /\ IF ~r.live THEN UNCHANGED << status, data, returned >>
     ELSE IF a = "ok"
       THEN \E sc \in Reports :
              /\ returned' = sc
              /\ IF sc \in Scores THEN status' = "success" /\ data' = sc
                               ELSE status' = "error" /\ data' = data
       ELSE status' = "error" /\ UNCHANGED << data, returned >>

\* variant: run reaching success without keeping the report
runSettle_dropsReport(r, a, n) ==
  /\ UNCHANGED << generating, documents, hasMR, dashLoading, dashData >>
  /\ IF r.op = "read" /\ a = "notfound"
       THEN /\ net' = request(n, "generate", "validation", None, r.live)
            /\ UNCHANGED << status, data, returned >>
       ELSE /\ net' = n
            /\ IF ~r.live THEN UNCHANGED << status, data, returned >>
               ELSE IF a = "ok"
                 THEN \E sc \in Reports :
                        /\ returned' = sc /\ data' = data
                        /\ status' = IF sc \in Scores THEN "success" ELSE "error"
                 ELSE status' = "error" /\ UNCHANGED << data, returned >>

\* variant: run without the validation of the response's shape
runSettle_noShapeTest(r, a, n) ==
  /\ UNCHANGED << generating, documents, hasMR, dashLoading, dashData >>
  /\ IF r.op = "read" /\ a = "notfound"
       THEN /\ net' = request(n, "generate", "validation", None, r.live)
            /\ UNCHANGED << status, data, returned >>
       ELSE /\ net' = n
            /\ IF ~r.live THEN UNCHANGED << status, data, returned >>
               ELSE IF a = "ok"
                 THEN /\ status' = "success"
                      /\ \E sc \in Reports : data' = sc /\ returned' = sc
                 ELSE status' = "error" /\ UNCHANGED << data, returned >>

\* EvaluationContent.run
runSettle(r, a, n) ==
  /\ UNCHANGED << generating, documents, hasMR, dashLoading, dashData >>
  /\ IF r.op = "read" /\ a = "notfound"
       THEN /\ net' = request(n, "generate", "validation", None, r.live)
            /\ UNCHANGED << status, data, returned >>
       ELSE /\ net' = n
            /\ IF ~r.live THEN UNCHANGED << status, data, returned >>
               ELSE IF a = "ok"
                 THEN \E sc \in Reports :
                        /\ returned' = sc
                        /\ IF sc \in Scores
                             THEN status' = "success" /\ data' = sc
                             ELSE status' = "error" /\ data' = data
                 ELSE status' = "error" /\ UNCHANGED << data, returned >>

\* the evaluation screen's market-research status check
statusCheckSettle(r, a, n) ==
  /\ net' = n
  /\ hasMR' = IF ~r.live THEN hasMR
              ELSE IF a = "ok" /\ store[r.kind] = "completed" THEN "true" ELSE "false"
  /\ UNCHANGED << status, data, returned, generating, documents, dashLoading, dashData >>

\* variant: load with every failure handled like a 404
loadSettle_allIdle(r, a, n) ==
  /\ net' = n
  /\ UNCHANGED << returned, generating, documents, hasMR, dashLoading, dashData >>
  /\ IF ~r.live THEN UNCHANGED << status, data >>
     ELSE IF a = "ok"
       THEN /\ data' = store[r.kind]
            /\ status' = IF store[r.kind] = "completed" THEN "success" ELSE "idle"
       ELSE status' = "idle" /\ data' = data

\* load / loadDeck of the pitch-deck, market-research and MVP screens
loadSettle(r, a, n) ==
  /\ net' = n
  /\ UNCHANGED << returned, generating, documents, hasMR, dashLoading, dashData >>
  /\ IF ~r.live THEN UNCHANGED << status, data >>
     ELSE CASE a = "ok" ->
                 /\ data' = store[r.kind]
                 /\ status' = IF store[r.kind] = "completed" THEN "success" ELSE "idle"
            [] a = "notfound" -> status' = "idle" /\ data' = data
            [] OTHER -> status' = "error" /\ data' = data

\* variant: handleGenerate's result applied whether or not the screen lives
generateSettle_stale(r, a, n) ==
  /\ net' = n
  /\ UNCHANGED << returned, generating, documents, hasMR, dashLoading, dashData >>
  /\ IF a = "ok"
       THEN status' = "success" /\ data' = "completed"
       ELSE status' = "error" /\ data' = data

\* handleGenerate after the generate call settles
generateSettle(r, a, n) ==
  /\ net' = n
  /\ UNCHANGED << returned, generating, documents, hasMR, dashLoading, dashData >>
  /\ IF ~r.live THEN UNCHANGED << status, data >>
     ELSE IF a = "ok"
       THEN status' = "success" /\ data' = "completed"
       ELSE status' = "error" /\ data' = data

\* LegalContent.fetchDocs after getLegalByIdea settles
fetchDocsSettle(r, a, n) ==
  /\ net' = n
  /\ UNCHANGED << data, returned, generating, hasMR, dashLoading, dashData >>
  /\ IF ~r.live THEN UNCHANGED << status, documents >>
     ELSE CASE a = "ok" -> /\ documents' \in Listings(legalStore) \cup Listings(r.seen)
                           /\ status' = "success"
            [] a = "notfound" -> documents' = << >> /\ status' = "success"
            [] OTHER -> documents' = documents /\ status' = "error"

\* variant: handleGenerate putting the new record in front of the whole list
generateLegalSettle_noFilter(r, a, n) ==
  /\ net' = n
  /\ UNCHANGED << status, data, returned, hasMR, dashLoading, dashData >>
  /\ IF ~r.live THEN UNCHANGED << generating, documents >>
     ELSE /\ generating' = None
          /\ documents' = IF a = "ok"
                             THEN << [type |-> r.doc, by |-> "generate"] >> \o documents
                             ELSE documents

\* LegalContent.handleGenerate after generateLegalDocument settles
generateLegalSettle(r, a, n) ==
  /\ net' = n
  /\ UNCHANGED << status, data, returned, hasMR, dashLoading, dashData >>
  /\ IF ~r.live THEN UNCHANGED << generating, documents >>
     ELSE /\ generating' = None
          /\ documents' =
               IF a = "ok"
                 THEN << [type |-> r.doc, by |-> "generate"] >>
                        \o SelectSeq(documents, LAMBDA x : x.type # r.doc)
                 ELSE documents

\* DashboardContent.load after getDashboard settles
dashboardSettle(r, a, n) ==
  /\ net' = n
  /\ UNCHANGED << status, data, returned, generating, documents, hasMR >>
  /\ IF ~r.live THEN UNCHANGED << dashLoading, dashData >>
     ELSE /\ dashLoading' = FALSE
          /\ dashData' = IF a = "ok" THEN StatusMap ELSE dashData

\* a call of request() settles with the backend's answer a: the token side
\* effect, then the caller's code
Settle(r, a) ==
  /\ r \in InFlight
  /\ a \in Answers(r)
  /\ r.op # "oauth"
  /\ r.op = "me" => refreshPc = "await"
  /\ Generated(r, a)
  /\ LET n == net (-) SetToBag({r}) IN
     IF r.op = "me"
       THEN /\ RefreshSettle(r, a)
            /\ net' = n
            /\ UNCHANGED << status, data, returned, generating, documents, hasMR, dashLoading,
                            dashData >>
       ELSE /\ token' = TokenAfter(a, token)
            /\ UNCHANGED << user, loading, refreshPc >>
            /\ CASE r.op = "dashboard" -> dashboardSettle(r, a, n)
                 [] r.op = "status" -> statusCheckSettle(r, a, n)
                 [] r.kind = "validation" -> runSettle(r, a, n)
                 [] r.kind = "legal" /\ r.op = "read" -> fetchDocsSettle(r, a, n)
                 [] r.kind = "legal" -> generateLegalSettle(r, a, n)
                 [] r.op = "read" -> loadSettle(r, a, n)
                 [] OTHER -> generateSettle(r, a, n)
  /\ since401' = (since401 \/ a = "unauthorized")
  /\ UNCHANGED << result, pages >>
  /\ loaded' = (loaded \/ (r.live /\ r.op = "read"))
  /\ UNCHANGED << route, mounted >>

\* ----------------------------------------------------------- OAuth callback
\* GoogleCallbackContent's effect: handleToken up to its await; t is the
\* token of the page's URL
handleToken(t) ==
  /\ refreshPc # "init"
  /\ route = "callback"
  /\ ~mounted
  /\ CanIssue(1)
  /\ mounted' = TRUE
  /\ token' = t
  /\ net' = net (+) SetToBag({[op |-> "oauth", kind |-> None, doc |-> None,
                                live |-> TRUE, auth |-> t, seen |-> {}]})
  /\ since401' = FALSE
  /\ UNCHANGED << result, pages >>
  /\ UNCHANGED << user, loading, refreshPc, route, screenVars, backendVars >>

\* handleToken after getMe() settles: login(token, user) and
\* router.replace("/dashboard"), or the page's error
handleTokenSettle(r, a) ==
  /\ r \in InFlight
  /\ r.op = "oauth"
  /\ a \in Answers(r)
  /\ UNCHANGED << loading, refreshPc, backendVars >>
  /\ LET n == net (-) SetToBag({r}) IN
     IF a = "ok"
       THEN /\ token' = r.auth
            /\ user' = UserOf(r.auth)
            /\ since401' = FALSE
            /\ UNCHANGED << result, pages >>
            /\ IF route = "dashboard"
                 THEN /\ net' = n
                      /\ UNCHANGED << route, mounted, screenVars >>
                 ELSE /\ route' = "dashboard"
                      /\ mounted' = FALSE
                      /\ net' = Orphan(n)
                      /\ ResetScreen
       ELSE /\ token' = TokenAfter(a, token)
            /\ since401' = (since401 \/ a = "unauthorized")
            /\ UNCHANGED << result, pages >>
            /\ net' = n
            /\ status' = IF r.live THEN "error" ELSE status
            /\ UNCHANGED << user, route, mounted, data, returned, generating, documents, hasMR,
                            dashLoading, dashData, loaded >>

\* ----------------------------------------------------------- specification
Next ==
  \/ RefreshStart
  \/ \E t \in Tokens : loginFn(t)
  \/ handleLogout
  \/ GuardRedirect
  \/ \E target \in Routes : Navigate(target)
  \/ Mount
  \/ handleGenerate
  \/ \E d \in DocTypes : handleGenerateLegal(d)
  \/ RetryFetchDocs
  \/ \E r \in InFlight : \E a \in Resps : Settle(r, a)
  \/ \E t \in Tokens : handleToken(t)
  \/ \E r \in InFlight : \E a \in Resps : handleTokenSettle(r, a)

Spec == Init /\ [][Next]_vars

\* the dashboard's agent hub alone: any status map may arrive as the response
\* the mount effects of AuthProvider and RouteGuard are run by the renderer
\* once their component has rendered: neither stays enabled forever untaken
LiveSpec == Spec /\ WF_vars(RefreshStart) /\ WF_vars(GuardRedirect)

GateInit ==
  /\ token = PersistedToken /\ user = UserOf(PersistedToken)
  /\ loading = FALSE /\ refreshPc = "done"
  /\ route = "dashboard" /\ mounted = TRUE
  /\ status = "loading" /\ data = None /\ returned = None /\ generating = None
  /\ documents = << >> /\ hasMR = None /\ loaded = FALSE
  /\ dashLoading = FALSE
  /\ dashData \in [AgentKeys -> Outcomes]
  /\ net = EmptyBag
  /\ store = [k \in Kinds \ {"legal"} |-> "none"]
  /\ legalStore = {}
  /\ since401 = FALSE
  /\ result = NoResult
  /\ form = NoForm /\ chat = NoChat

\* setData(res) with another response
GateNext ==
  /\ dashData' \in [AgentKeys -> Outcomes]
  /\ UNCHANGED << sessionVars, route, mounted, status, data, returned, generating, documents,
                  hasMR, dashLoading, loaded, net, backendVars, since401, result, pages >>

GateSpec == GateInit /\ [][GateNext]_vars

\* ----------------------------------------------------------- request() alone
\* one caller, any stored token, any behaviour of server and transport
RequestInit ==
  /\ token \in {NoToken} \cup Tokens /\ user = NoUser
  /\ loading = FALSE /\ refreshPc = "done"
  /\ route = "login" /\ mounted = FALSE
  /\ InitialScreen
  /\ net = EmptyBag
  /\ store = [k \in Kinds \ {"legal"} |-> "none"]
  /\ legalStore = {}
  /\ since401 = FALSE
  /\ result = NoResult
  /\ form = NoForm /\ chat = NoChat

\* one call of request() from start to settlement
perform(resp) ==
  /\ result' = requestOutcome(resp, DefaultTimeoutMs)
  /\ token' = TokenAfter(AnswerOf(resp, DefaultTimeoutMs), getToken)
  /\ UNCHANGED << user, loading, refreshPc, route, mounted, screenVars, net,
                  backendVars, since401, pages >>

\* setToken(t), as the login page does between calls
setToken(t) ==
  /\ token' = t
  /\ UNCHANGED << user, loading, refreshPc, route, mounted, screenVars, net,
                  backendVars, since401, result, pages >>

RequestNext ==
  \/ \E resp \in Responses : perform(resp)
  \/ \E t \in Tokens : setToken(t)

RequestSpec == RequestInit /\ [][RequestNext]_vars

\* ----------------------------------------------------------- the forms alone
\* the new-idea page or the signup page, with any text in its fields
FormInit ==
  /\ token \in {NoToken} \cup Tokens
  /\ user = IF token = NoToken THEN NoUser ELSE UserOf(token)
  /\ loading = FALSE /\ refreshPc = "done"
  /\ route \in {"new_idea", "signup"} /\ mounted = TRUE
  /\ InitialScreen
  /\ net = EmptyBag
  /\ store = [k \in Kinds \ {"legal"} |-> "none"]
  /\ legalStore = {}
  /\ since401 = FALSE
  /\ result = NoResult
  /\ chat = NoChat
  /\ \/ /\ route = "new_idea"
        /\ \E i \in IdeaInputs :
             form = [page |-> "new_idea", input |-> i, errors |-> NoErrors,
                     submitting |-> FALSE]
     \/ /\ route = "signup"
        /\ \E i \in SignupInputs :
             form = [page |-> "signup", input |-> i, errors |-> "",
                     submitting |-> FALSE]

FormFrame ==
  UNCHANGED << user, loading, refreshPc, mounted, screenVars, backendVars, since401,
               result, chat >>

\* variant: the idea form's submit going on after it has set the errors
handleSubmitIdea_noReturn ==
  /\ route = "new_idea" /\ ~form.submitting /\ CanIssue(1)
  /\ form' = [form EXCEPT !.errors = validate(form.input), !.submitting = TRUE]
  /\ net' = request(net, "createIdea", None, None, TRUE)
  /\ UNCHANGED << token, route >> /\ FormFrame

\* NewIdeaForm.handleSubmit up to its await
handleSubmitIdea ==
  /\ route = "new_idea" /\ ~form.submitting /\ CanIssue(1)
  /\ IF validate(form.input) # NoErrors
       THEN /\ form' = [form EXCEPT !.errors = validate(form.input)]
            /\ net' = net
       ELSE /\ form' = [form EXCEPT !.submitting = TRUE]
            /\ net' = request(net, "createIdea", None, None, TRUE)
  /\ UNCHANGED << token, route >> /\ FormFrame

\* SignupPage.handleSubmit up to its await
handleSubmitSignup ==
  /\ route = "signup" /\ ~form.submitting /\ CanIssue(1)
  /\ IF signupError(form.input) # ""
       THEN /\ form' = [form EXCEPT !.errors = signupError(form.input)]
            /\ net' = net
       ELSE /\ form' = [form EXCEPT !.errors = "", !.submitting = TRUE]
            /\ net' = request(net, "signup", None, None, TRUE)
  /\ UNCHANGED << token, route >> /\ FormFrame

\* NewIdeaForm.update(key, value): the field is set and its error removed
update(k, v) ==
  /\ route = "new_idea"
  /\ form.input[k] # v
  /\ form' = [form EXCEPT !.input[k] = v, !.errors[k] = ""]
  /\ UNCHANGED << token, route, net >> /\ FormFrame

\* the signup page's onChange handlers
setField(k, v) ==
  /\ route = "signup"
  /\ form.input[k] # v
  /\ [form.input EXCEPT ![k] = v] \in SignupInputs
  /\ form' = [form EXCEPT !.input[k] = v]
  /\ UNCHANGED << token, route, net >> /\ FormFrame

\* handleSubmit after createIdea or signup settles
submitSettle(r, a) ==
  /\ r \in InFlight /\ a \in {"ok"} \cup Failures
  /\ net' = net (-) SetToBag({r})
  /\ token' = TokenAfter(a, token)
  /\ IF a = "ok" /\ r.op = "createIdea"
       THEN /\ route' = "validation"
            /\ form' = NoForm
       ELSE /\ route' = route
            /\ form' = [form EXCEPT !.submitting = FALSE,
                                    !.errors = IF r.op = "signup" /\ a # "ok"
                                                 THEN a ELSE @]
  /\ FormFrame

FormNext ==
  \/ handleSubmitIdea
  \/ handleSubmitSignup
  \/ \E k \in IdeaFields : \E v \in Names \cup Descriptions \cup Choices :
       /\ v \in {i[k] : i \in IdeaInputs}
       /\ update(k, v)
  \/ \E k \in {"username", "password", "confirmPassword"} :
       \E v \in Usernames \cup Passwords : setField(k, v)
  \/ \E r \in InFlight : \E a \in Resps : submitSettle(r, a)

FormSpec == FormInit /\ [][FormNext]_vars

\* ----------------------------------------------------------- the chat screen alone
\* the texts typed into the textarea, and SUGGESTED_QUESTIONS
Typed == {<< >>, << Blank >>, << "q" >>}
SuggestedQuestions == {<< "s" >>}

\* the chat page just mounted by a logged-in user: getChatStatus is in flight
ChatInit ==
  /\ token \in Tokens /\ user = UserOf(token)
  /\ loading = FALSE /\ refreshPc = "done"
  /\ route = "chat" /\ mounted = TRUE
  /\ InitialScreen
  /\ store = [k \in Kinds \ {"legal"} |-> "none"]
  /\ legalStore = {}
  /\ net = SetToBag({[op |-> "status", kind |-> "chat", doc |-> None, live |-> TRUE,
                      auth |-> token, seen |-> {}]})
  /\ since401 = FALSE
  /\ result = NoResult
  /\ form = NoForm /\ chat = NoChat

ChatFrame ==
  UNCHANGED << user, loading, refreshPc, route, mounted, screenVars, backendVars,
               since401, result, form >>

\* React renders ChatPage again with the state as it is now
Render ==
  /\ route = "chat"
  /\ chat.shown # Rendered(chat)
  /\ chat' = [chat EXCEPT !.shown = Rendered(chat)]
  /\ UNCHANGED << token, net >> /\ ChatFrame

\* the textarea's onChange (the textarea is disabled while isLoading)
onChange(v) ==
  /\ route = "chat"
  /\ ~chat.shown.isLoading
  /\ chat.input # v
  /\ chat' = [chat EXCEPT !.input = v]
  /\ UNCHANGED << token, net >> /\ ChatFrame

\* setMessages(prev => [...prev, msg]); lengths above the threshold of
\* showSuggestions are not told apart
Appended(n) == IF n > SuggestionsUpTo THEN n ELSE n + 1

\* the elements of the last render that call handleSend: a suggestion button
\* (q is its question) while showSuggestions, the Enter key of the enabled
\* textarea and the send button (no override)
CanSend(q) ==
  IF q \in SuggestedQuestions
    THEN /\ ~chat.shown.statusLoading
         /\ chat.shown.messages <= SuggestionsUpTo /\ ~chat.shown.isLoading
    ELSE ~chat.shown.isLoading

\* ChatPage.handleSend(questionOverride) up to its await; input and isLoading
\* are the values of the render whose closure is called
handleSend(q) ==
  /\ route = "chat"
  /\ CanSend(q)
  /\ LET question == Trim(IF q # << >> THEN q ELSE chat.shown.input)
     IN ~(question = << >> \/ chat.shown.isLoading)
  /\ CanIssue(1)
  /\ chat' = [chat EXCEPT !.input = << >>, !.messages = Appended(@), !.isLoading = TRUE]
  /\ net' = request(net, "ask", "chat", None, TRUE)
  /\ UNCHANGED token /\ ChatFrame

\* handleSend after askChatCoFounder settles: the answer or the error message
\* is appended, and finally setIsLoading(false)
askSettle(r, a) ==
  /\ r \in InFlight /\ r.op = "ask" /\ a \in {"ok"} \cup Failures
  /\ net' = net (-) SetToBag({r})
  /\ token' = TokenAfter(a, token)
  /\ chat' = [chat EXCEPT !.messages = Appended(@), !.isLoading = FALSE]
  /\ ChatFrame

\* fetchStatus after getChatStatus settles: the welcome message alone
chatStatusSettle(r, a) ==
  /\ r \in InFlight /\ r.op = "status" /\ r.kind = "chat" /\ a \in {"ok"} \cup Failures
  /\ net' = net (-) SetToBag({r})
  /\ token' = TokenAfter(a, token)
  /\ chat' = IF r.live THEN [chat EXCEPT !.messages = 1, !.statusLoading = FALSE] ELSE chat
  /\ ChatFrame

ChatNext ==
  \/ Render
  \/ \E v \in Typed : onChange(v)
  \/ \E q \in {<< >>} \cup SuggestedQuestions : handleSend(q)
  \/ \E r \in InFlight : \E a \in Resps : askSettle(r, a)
  \/ \E r \in InFlight : \E a \in Resps : chatStatusSettle(r, a)

ChatSpec == ChatInit /\ [][ChatNext]_vars

\* ----------------------------------------------------------- properties
Generates(k) == {r \in InFlight : r.op = "generate" /\ r.kind = k}
LiveGenerates(k) == {r \in Generates(k) : r.live}
NumGenerates(k) ==
  LET g == Generates(k)
      RECURSIVE Sum(_)
      Sum(S) == IF S = {} THEN 0
                ELSE LET x == CHOOSE y \in S : TRUE IN CopiesIn(x, net) + Sum(S \ {x})
  IN Sum(g)

\* copies of a request in a bag, whatever its "active" flag and the listing
\* its response carries
Copies(n, r) ==
  BagCardinality([x \in {y \in BagToSet(n) : Discarded(y) = Discarded(r)} |-> n[x]])
\* the requests this step issues (the flag and the listing set aside)
NewRequests ==
  {q \in {[Discarded(r) EXCEPT !.live = TRUE] : r \in BagToSet(net')} :
     Copies(net', q) > Copies(net, q)}

\* prerequisites reachable via incoming edges
RECURSIVE Upstream(_, _)
Upstream(k, n) ==
  IF n = 0 THEN {}
  ELSE Prerequisites(k) \cup UNION {Upstream(p, n - 1) : p \in Prerequisites(k)}
AllPrerequisites(k) == Upstream(k, Len(Edges))

\* this step is the call r settling with answer a
Settled(r, a) ==
  /\ CopiesIn(r, net') < CopiesIn(r, net)
  /\ Settle(r, a) \/ handleTokenSettle(r, a)

\* the generate calls this step issues for kind k
NewGenerates(k) == {q \in NewRequests : q.op = "generate" /\ q.kind = k}
ExactlyOneNewGenerate(k) ==
  /\ Cardinality(NewGenerates(k)) = 1
  /\ \A q \in NewGenerates(k) : Copies(net', q) = Copies(net, q) + 1

C2_ReadFailureNoGenerate ==
  [][\A r \in InFlight :
       (r.op = "read" /\ \E a \in Failures : Settled(r, a)) =>
          /\ \A q \in NewRequests : q.op # "generate"
          /\ r.live => status' = "error"]_vars

C2_Witness ==
  /\ mounted /\ route = "legal" /\ status = "error" /\ loaded
  /\ Generates(route) = {}

\* C3 (as claimed): at most one generate call is in flight per agent kind
\* of the idea
C3_OneGenerateInFlight == \A k \in Kinds : NumGenerates(k) <= 1

\* C4 (as claimed): while the screen is Loading or Generating, invoking load
\* or regenerate issues no network call
Busy == mounted /\ (status \in {"loading", "generating"} \/ generating # None)
C4_ReentrancyNoOp ==
  [][(Busy /\ (handleGenerate \/ RetryFetchDocs
               \/ \E d \in DocTypes : handleGenerateLegal(d))) => net' = net]_vars

\* C5 (as claimed): no manual generate call is issued for a kind while an
\* automatic read or generate call for that kind is in flight
C5_NoRegenerateDuringAutomatic ==
  [][handleGenerate =>
       ~\E r \in InFlight : r.kind = route /\ r.op = "read"]_vars

\* C6: every generate call is issued after a read call of the same screen for
\* the same kind has settled
C6_ReadBeforeGenerate ==
  \A k \in Kinds : LiveGenerates(k) # {} => (mounted /\ route = k /\ loaded)

C6_Witness ==
  \E k \in SimpleKinds : LiveGenerates(k) # {} /\ status = "generating"

\* C7: a 401 clears the stored token, and requests issued afterwards (until a
\* token is stored again) carry no Authorization header
C7_UnauthorizedClearsToken ==
  [][/\ \A r \in InFlight : Settled(r, "unauthorized") => token' = NoToken
     /\ (since401 /\ since401') => \A q \in NewRequests : q.auth = NoToken]_vars

C7_Witness ==
  /\ since401 /\ user # NoUser /\ mounted
  /\ \E r \in InFlight : r.live /\ r.auth = NoToken

\* C8 (as claimed): after a 401 the route guard no longer renders the
\* protected view
C8_UnauthorizedLeadsToLogin ==
  (since401 /\ route \in Guarded) => RouteGuardView(user, loading) # "children"

\* C9 (as claimed): no generate call is in flight for a kind with a
\* prerequisite that is not completed
C9_PrerequisitesBeforeGenerate ==
  \A k \in Kinds : Generates(k) # {} =>
     \A p \in AllPrerequisites(k) : StatusMap[p] = "completed"

\* C10: in the agent hub a kind is enabled iff every prerequisite reachable via
\* incoming edges is completed
C10_GateRule ==
  \A k \in AgentKeys :
     agents(dashData)[k].enabled <=>
        \A p \in AllPrerequisites(k) : dashData[p] = "completed"

C10_Witness ==
  /\ dashData["validation"] = "completed" /\ dashData["market_research"] = "pending"
  /\ ~agents(dashData)["mvp"].enabled /\ agents(dashData)["legal"].enabled

\* the tooltip that names a prerequisite
Tooltip(p) ==
  CASE p = "validation" -> "Validate idea first"
    [] p = "market_research" -> "Complete market research first"
    [] OTHER -> ""

\* the first prerequisite of k, in the order the edges are declared, that is
\* not completed in status map d
FirstUnmet(k, d) ==
  LET unmet == {i \in DOMAIN Edges :
                  Edges[i][1] \in AllPrerequisites(k) /\ d[Edges[i][1]] # "completed"}
      first == CHOOSE i \in unmet : \A j \in unmet : i <= j
  IN Edges[first][1]

\* C11: a locked card's tooltip names the first prerequisite, in declaration
\* order, that is not completed; with validation completed and market
\* research pending the MVP card is locked on market research
C11_FirstUnmetReason ==
  /\ \A k \in AgentKeys :
       ~agents(dashData)[k].enabled =>
          agents(dashData)[k].tooltip = Tooltip(FirstUnmet(k, dashData))
  /\ (dashData["validation"] = "completed" /\ dashData["market_research"] = "pending") =>
       /\ ~agents(dashData)["mvp"].enabled
       /\ agents(dashData)["mvp"].tooltip = Tooltip("market_research")

C11_Witness ==
  /\ dashData["validation"] = "failed" /\ dashData["market_research"] = "not_started"
  /\ agents(dashData)["mvp"].tooltip = Tooltip("validation")

\* C12: once refresh() has settled, loading is false, whichever branch it took
C12_RefreshTotality == refreshPc = "done" => loading = FALSE

C12_Witness == refreshPc = "done" /\ loading = FALSE /\ user # NoUser /\ token # NoToken

\* C13: when the who-am-I call of refresh() fails, for any reason, the token is
\* cleared and user is null, and nothing else of the application's state changes
C13_FailedRefreshLogsOut ==
  [][\A r \in InFlight :
       (r.op = "me" /\ \E a \in Failures : Settled(r, a)) =>
          /\ token' = NoToken /\ user' = NoUser
          /\ UNCHANGED << route, mounted, status, data, generating, documents,
                          hasMR, dashLoading, dashData >>]_vars

C13_Witness ==
  /\ refreshPc = "done" /\ since401 /\ token = NoToken /\ user = NoUser
  /\ route \in Guarded /\ ~mounted

\* C20: the guard renders the protected children only when loading is false
\* and user is non-null; when loading is false and user is null it redirects
\* to login and renders nothing
C20_RouteGuard ==
  /\ RouteGuardView(user, loading) = "children" <=> (~loading /\ user # NoUser)
  /\ (mounted /\ route \in Guarded) => (~loading /\ user # NoUser)
  /\ (~loading /\ user = NoUser) =>
       (RouteGuardRedirects(user, loading) /\ RouteGuardView(user, loading) = "nothing")

C20_Witness ==
  /\ route \in Guarded /\ ~loading /\ user = NoUser
  /\ RouteGuardRedirects(user, loading) /\ ~mounted

StatesHeld ==
  {s \in {"idle", "loading", "success", "error"} : status = s}
  \cup (IF status = "generating" \/ generating # None THEN {"generating"} ELSE {})

\* C16 (as claimed): exactly one of Idle, Loading, Generating, Success, Error
\* holds of the screen of an agent kind
C16_ExactlyOneState ==
  (mounted /\ route \in Kinds) => Cardinality(StatesHeld) = 1

\* C19 (as claimed): every Error state of an agent screen shows a retry action
C19_ErrorHasRetry ==
  (mounted /\ route \in Kinds /\ status = "error") =>
     (GenerateButton \/ (route = "legal" /\ LegalView = "error"))

\* the retry controls of the Error views, by the call they issue
RetryIssuesGenerate == GenerateButton /\ status = "error"
RetryIssuesRead == mounted /\ route = "legal" /\ LegalView = "error"

\* C18 (as claimed): the retry action shown once a read call has failed
\* issues the read call again, the one shown once a generate call has failed
\* issues the generate call again
C18_RetryRerunsFailedStep ==
  [][\A r \in InFlight :
       (r.live /\ \E a \in Failures : Settled(r, a)) =>
          /\ r.op = "read" => ~RetryIssuesGenerate'
          /\ r.op = "generate" => ~RetryIssuesRead']_vars

\* C17 (as claimed): a read call answering 200 puts the screen in Success,
\* and the screen leaves Success only by an explicit regenerate
C17_ReadOkIsSuccess ==
  [][/\ \A r \in InFlight :
          (r.live /\ r.op = "read" /\ Settled(r, "ok")) => status' = "success"
     /\ (mounted /\ mounted' /\ route \in Kinds /\ status = "success"
           /\ status' # "success") => handleGenerate]_vars

\* the steps of the session context that write the token
SessionWrites ==
  \/ \E t \in Tokens : loginFn(t)
  \/ handleLogout
  \/ \E r \in InFlight : r.op = "me" /\ \E a \in Failures : Settled(r, a)

C21_LoadingPlaceholderOnly ==
  [][loading =>
       /\ RouteGuardView(user, loading) = "placeholder"
       /\ ~RouteGuardRedirects(user, loading)
       /\ ~(mounted /\ route \in Guarded)
       /\ ~GuardRedirect]_vars

C21_Witness ==
  /\ loading /\ refreshPc = "await" /\ route \in Guarded
  /\ user # NoUser /\ token # NoToken

\* C22: from a start on a guarded route with no persisted token, the guard
\* shows the placeholder while loading, the redirect to the login route
\* eventually happens once loading is false and user is null, and the
\* protected children are rendered in no state where user is null
C22_NoTokenLeadsToLogin ==
  /\ []((loading /\ route \in Guarded) => RouteGuardView(user, loading) = "placeholder")
  /\ [](user = NoUser => ~(mounted /\ route \in Guarded))
  /\ (token = NoToken /\ refreshPc = "init" /\ route \in Guarded)
        ~> (route = "login" /\ ~loading /\ user = NoUser)

C22_Witness ==
  /\ route \in Guarded /\ ~loading /\ user = NoUser /\ token = NoToken
  /\ refreshPc = "done" /\ ~since401 /\ net = EmptyBag /\ ~mounted
  /\ ENABLED GuardRedirect

\* AuthProvider renders its children once its mount effect has run
AuthProviderRenders == refreshPc # "init"

\* Navbar: the links shown, chosen by user alone
NavbarView ==
  IF ~AuthProviderRenders THEN "nothing"
  ELSE IF user # NoUser THEN "member" ELSE "guest"

\* C23: no consumer renders session-dependent UI before the first refresh()
\* has settled: until then the navigation bar shows neither the guest links
\* nor the member links
C23_NoSessionUiBeforeSettle == refreshPc # "done" => NavbarView = "nothing"

\* C24: refresh() runs exactly once: the mount effect starts it, a who-am-I
\* request is issued by no step other than that start, and once started it is
\* never started again by a login, a logout, a 401 or a navigation
C24_RefreshOnce ==
  /\ <>(refreshPc # "init")
  /\ [][/\ (\E q \in NewRequests : q.op = "me") => refreshPc = "init"
        /\ refreshPc # "init" => refreshPc' # "init"
        /\ refreshPc = "done" => refreshPc' = "done"]_vars

C24_Witness ==
  /\ refreshPc = "done" /\ since401 /\ user # NoUser /\ token = NoToken
  /\ ~(\E r \in InFlight : r.op = "me")

\* C25: login(token, user) stores the token and sets user in the same step,
\* issues no request and leaves refresh() where it was; so does the login()
\* call of the OAuth callback page
C25_LoginSynchronous ==
  [][/\ \A t \in Tokens :
          loginFn(t) =>
            /\ token' = t /\ user' = UserOf(t)
            /\ NewRequests = {} /\ net' = net
            /\ refreshPc' = refreshPc /\ loading' = loading
     /\ \A r \in InFlight :
          (r.op = "oauth" /\ Settled(r, "ok")) =>
            /\ token' = r.auth /\ user' = UserOf(r.auth)
            /\ NewRequests = {}
            /\ refreshPc' = refreshPc /\ loading' = loading]_vars

C25_Witness ==
  /\ refreshPc = "await" /\ loading /\ route = "login"
  /\ token \in Tokens /\ user = UserOf(token)

\* C26: logout() clears the stored token and sets user to null
C26_LogoutClears ==
  [][handleLogout => (token' = NoToken /\ user' = NoUser)]_vars

C26_Witness ==
  /\ route = "login" /\ token = NoToken /\ user = NoUser /\ refreshPc = "done"
  /\ \E r \in InFlight : r.op \in {"read", "generate", "dashboard"} /\ ~r.live

\* the errors request() throws for a connection failure or an HTTP status
OtherFailures ==
  {requestOutcome(resp, DefaultTimeoutMs) :
     resp \in {x \in Responses : AnswerOf(x, DefaultTimeoutMs) \notin {"ok", "timeout"}}}

\* C27: when timeoutMs elapses before a response the request is aborted and
\* the error thrown is of a type of its own: it is an instance of a class that
\* no connection failure and no HTTP error is an instance of
C27_TimeoutTyped ==
  result.aborted =>
    /\ result.kind = "thrown"
    /\ \E c \in Classes :
         /\ InstanceOf(result, c)
         /\ \A e \in OtherFailures : ~InstanceOf(e, c)

\* C28: on the evaluation screen a read answered 404 is followed by the
\* generate call, and when that call answers 200 with a numeric score the
\* screen is in success and the score it holds is the score returned
C28_GeneratedScoreHeld ==
  [][\A r \in InFlight :
       (r.kind = "validation" /\ r.live) =>
         /\ (r.op = "read" /\ Settled(r, "notfound")) =>
               /\ ExactlyOneNewGenerate("validation")
               /\ status' = status /\ data' = data
         /\ (r.op = "generate" /\ Settled(r, "ok") /\ returned' \in Scores) =>
               /\ status' = "success"
               /\ data' = returned']_vars

C28_Witness ==
  /\ route = "validation" /\ mounted /\ status = "success"
  /\ data = "0" /\ returned = "0" /\ net = EmptyBag
  /\ store["validation"] = "completed"

\* C29: the client holds at most one result per agent kind, and on the legal
\* screen at most one document of each type, whatever reads and generates
\* have settled: no type occurs twice in the list of documents
C29_OneDocumentPerType ==
  /\ \A i, j \in DOMAIN documents : documents[i].type = documents[j].type => i = j
  /\ \A d \in DocTypes : Cardinality(getDocByType(d)) <= 1
  /\ Len(documents) <= Cardinality(DocTypes)

\* a second generate of a type is in flight while the list holds the type
C29_Witness ==
  /\ route = "legal" /\ mounted /\ Len(documents) = 2
  /\ \E r \in InFlight :
       r.op = "generate" /\ r.kind = "legal" /\ r.live /\ getDocByType(r.doc) # {}

\* EvaluationContent: the MVP card opens the MVP screen when hasMR is true,
\* and is shown locked ("Requires completed market research") otherwise
EvaluationMvpGate == hasMR = "true"

\* C30: the gate decision is a function of the status map alone: while the
\* evaluation screen stays mounted and the statuses of the idea's agents are
\* the same, its decision for the MVP agent is the same, whether a status
\* lookup is pending, has answered or has failed
C30_GatePure ==
  [][(/\ mounted /\ mounted' /\ route = "validation" /\ route' = route
      /\ StatusMap' = StatusMap)
        => (EvaluationMvpGate' <=> EvaluationMvpGate)]_vars

\* the agents whose completion the agent hub requires before it enables k:
\* those whose lack alone, everything else completed, locks the card of k
AllDone == [k \in AgentKeys |-> "completed"]
Needs(k) ==
  {p \in AgentKeys \ {k} : ~agents([AllDone EXCEPT ![p] = "not_started"])[k].enabled}

\* C31: the dependencies the system enforces are acyclic, validation has no
\* prerequisite and is a prerequisite of every other agent; they are the
\* prerequisites reachable through the declared edges, and an enabled agent
\* has all of them completed
C31_EdgesAcyclic ==
  /\ \A k \in AgentKeys : k \notin AllPrerequisites(k)
  /\ \A k, p \in AgentKeys : p \in Needs(k) => k \notin Needs(p)
  /\ Needs("validation") = {} /\ Prerequisites("validation") = {}
  /\ \A k \in AgentKeys \ {"validation"} : "validation" \in Needs(k)
  /\ \A k \in AgentKeys : Needs(k) = AllPrerequisites(k)
  /\ \A k \in AgentKeys :
       agents(dashData)[k].enabled => \A p \in Needs(k) : dashData[p] = "completed"

C31_Witness ==
  /\ agents(dashData)["mvp"].enabled /\ agents(dashData)["chat"].enabled
  /\ dashData["pitch_deck"] = "failed" /\ dashData["legal"] = "pending"

\* C32: a submission that the form's own validation rejects issues no
\* request: the step sets the errors, leaves the form not submitting and the
\* requests in flight as they are; an accepted submission issues exactly one
C32_RejectedNeverSent ==
  [][/\ handleSubmitIdea =>
          IF validate(form.input) # NoErrors
            THEN /\ net' = net /\ NewRequests = {} /\ ~form'.submitting
                 /\ form'.errors = validate(form.input)
            ELSE BagCardinality(net') = BagCardinality(net) + 1
     /\ handleSubmitSignup =>
          IF ~usernameValid(form.input) \/ ~allRulesPassed(form.input)
               \/ form.input.password # form.input.confirmPassword
            THEN /\ net' = net /\ NewRequests = {} /\ ~form'.submitting
                 /\ form'.errors # ""
            ELSE BagCardinality(net') = BagCardinality(net) + 1]_vars

\* a rejected submission has happened and nothing is in flight
C32_Witness ==
  /\ net = EmptyBag /\ ~form.submitting
  /\ \/ /\ route = "new_idea" /\ form.errors # NoErrors
        /\ form.errors["one_line_description"] # "" /\ form.errors["startup_name"] = ""
     \/ /\ route = "signup" /\ form.errors = "Passwords do not match"

\* C33: when login() was called while refresh() was awaiting the who-am-I
\* response, the settling of that response, success or failure, leaves the
\* stored token and the user those of the login
C33_LoginSurvivesRefresh ==
  [][(/\ refreshPc = "await" /\ refreshPc' = "done"
      /\ token \in Tokens /\ user = UserOf(token))
        => (token' = token /\ user' = user)]_vars

\* C34: when logout() was called while refresh() was awaiting the who-am-I
\* response, the settling of that response, also a successful one, leaves
\* no token stored and user null
C34_LogoutSurvivesRefresh ==
  [][(/\ refreshPc = "await" /\ refreshPc' = "done"
      /\ token = NoToken /\ user = NoUser)
        => (token' = NoToken /\ user' = NoUser)]_vars

\* C35: whenever loading is false and user is non-null a token is stored
C35_UserImpliesToken == (~loading /\ user # NoUser) => token # NoToken


\* the document types the list holds as results of generate calls
GeneratedHere == {documents[i].type : i \in {j \in DOMAIN documents : documents[j].by = "generate"}}

\* C36: on the legal screen a document that a successful generate added to
\* the list stays in the list (as itself or as a later document of its
\* type) while the screen is mounted, whatever responses arrive afterwards
C36_GeneratedDocumentStays ==
  [][(mounted /\ mounted' /\ route = "legal" /\ route' = "legal")
       => \A d \in GeneratedHere : getDocByType(d)' # {}]_vars

\* C37: every call of request() settles no later than timeoutMs after it was
\* started, whatever phase it is in, the reading and decoding of the response
\* body after the headers have arrived included
C37_SettlesWithinTimeout ==
  result.kind # "none" => result.settledAt <= DefaultTimeoutMs

\* C38: a call of request() that fails with anything other than HTTP 401 (a
\* connection failure, a timeout, an ApiError of another status, a body that
\* is not JSON) leaves the stored token as it was: no step that ends with
\* such an error thrown and another token stored is a call of request()
C38_OtherFailuresKeepToken ==
  [][(result'.kind = "thrown" /\ result'.status # 401 /\ token' # token)
       => ~\E resp \in Responses : perform(resp)]_vars

\* a call has failed with status 500 and the token is still stored
C38_Witness ==
  /\ result.kind = "thrown" /\ result.class = "ApiError" /\ result.status = 500
  /\ token \in Tokens

\* the ask calls in flight
Asks == BagCardinality([x \in {y \in InFlight : y.op = "ask"} |-> net[x]])

\* C39: on the chat screen at most one ask call is in flight at any time: a
\* send invoked before the previous ask has settled issues no request, two
\* sends invoked before the screen has rendered again included
C39_OneAskInFlight == Asks <= 1

\* C40: the evaluation screen is in success only with a report whose
\* final_viability_score is a number, and a 200 response of the read or of
\* the generate call that lacks it puts the screen in error
C40_SuccessNeedsScore ==
  /\ []((route = "validation" /\ status = "success") => data \in Scores)
  /\ [][\A r \in InFlight :
          (r.kind = "validation" /\ r.op \in {"read", "generate"} /\ r.live
             /\ Settled(r, "ok"))
            => IF returned' \in Scores
                 THEN status' = "success" /\ data' = returned'
                 ELSE status' = "error" /\ data' = data]_vars

\* a 200 response without a numeric score has put the screen in error
C40_Witness ==
  /\ route = "validation" /\ mounted /\ status = "error" /\ returned = NoScore
====
